---- MODULE Spec2Model ----
(***************************************************************************)
(* Model of the weather MCP server                                         *)
(*   src/src/mcp-server/04-weather-server/server-mcp-sse-weather.py        *)
(*                                                                         *)
(* Text.  A Python str is modelled as a sequence of pieces.  A piece is    *)
(* either one character (a one-character string) or a literal of the       *)
(* source that the program only ever copies whole (a message, a weather    *)
(* description, a separator of the f-string).  Everything the program      *)
(* computes character by character (strip, lower, title, strftime) works   *)
(* on one-character pieces.  The code point U+017F (LATIN SMALL LETTER     *)
(* LONG S) is written "U+017F", the grave accent "U+0060".                 *)
(*                                                                         *)
(* Time.  The wall clock is the number of minutes since                    *)
(* 2026-11-01 00:00 UTC; the model's window lies inside November 2026, so  *)
(* %Y-%m always renders as 2026-11.  Minute granularity is exact for the   *)
(* program: it reads the hour and prints up to the minute.                 *)
(***************************************************************************)
EXTENDS Integers, Sequences, FiniteSets, TLC

VARIABLES
    pc,             \* position of the process: "import", "main", "checked", "serving", "exit"
    declared,       \* number of decorators of the module already executed
    tools,          \* FastMCP registry: tool name -> handler
    resources,      \* FastMCP registry: resource uri -> handler
    prompts,        \* FastMCP registry: prompt name -> handler
    templates,      \* FastMCP registry: resource templates
    log,            \* lines printed by check_mcp
    locations,      \* the module global LOCATIONS (a dict, insertion ordered)
    staticWeather,  \* the module global STATIC_WEATHER
    tzdata,         \* zone names the installed pytz database resolves
    clock,          \* wall clock of the server
    req,            \* per worker: the invocation it is serving
    arg,            \* resolver harness: the input string
    now,            \* resolver harness: the wall clock
    call,           \* resolver harness: the first application and its result
    again           \* resolver harness: a second get_weather_at_location call

vars == <<pc, declared, tools, resources, prompts, templates, log, locations,
          staticWeather, tzdata, clock, req, arg, now, call, again>>

serverVars == <<pc, declared, tools, resources, prompts, templates, log, locations,
                staticWeather, tzdata, clock, req>>

resolverVars == <<arg, now, call, again>>

(***************************************************************************)
(* Bounds                                                                  *)
(***************************************************************************)
MaxPad == 2

MaxBatch == 3

MaxTicks == 1

WindowHours == 24

Workers == {"w1", "w2"}

Min(S) == CHOOSE x \in S : \A y \in S : x <= y

Max(S) == CHOOSE x \in S : \A y \in S : y <= x

(***************************************************************************)
(* Characters and the str methods the program uses                         *)
(***************************************************************************)
Uppers == <<"A","B","C","D","E","F","G","H","I","J","K","L","M",
            "N","O","P","Q","R","S","T","U","V","W","X","Y","Z">>

Lowers == <<"a","b","c","d","e","f","g","h","i","j","k","l","m",
            "n","o","p","q","r","s","t","u","v","w","x","y","z">>

LongS == "U+017F"

IsUpper(c) == \E i \in 1..26 : Uppers[i] = c

IsLower(c) == \E i \in 1..26 : Lowers[i] = c

\* str.isspace for one character
IsSpace(c) == c \in {" ", "\t"}

\* a cased character: it has a lower/upper/title case mapping
IsCased(c) == IsUpper(c) \/ IsLower(c) \/ c = LongS

\* lower-case mapping of one character (U+017F is lower case already)
ToLower(c) == IF IsUpper(c) THEN Lowers[CHOOSE i \in 1..26 : Uppers[i] = c] ELSE c

\* upper-case mapping of one character (U+017F maps to "S")
ToUpper(c) ==
    IF c = LongS THEN "S"
    ELSE IF IsLower(c) THEN Uppers[CHOOSE i \in 1..26 : Lowers[i] = c] ELSE c

\* title-case mapping of one character (equal to the upper-case mapping here)
ToTitle(c) == ToUpper(c)

\* str.strip(): drop leading and trailing whitespace
Strip(s) ==
    LET keep == {i \in 1..Len(s) : ~IsSpace(s[i])}
    IN  IF keep = {} THEN <<>> ELSE SubSeq(s, Min(keep), Max(keep))

\* str.lower()
Lower(s) == [i \in 1..Len(s) |-> ToLower(s[i])]

\* str.upper()
Upper(s) == [i \in 1..Len(s) |-> ToUpper(s[i])]

\* str.title(): a cased character is title-cased when the character before it
\* is not cased, and lower-cased otherwise
Title(s) ==
    [i \in 1..Len(s) |->
        IF i > 1 /\ IsCased(s[i-1]) THEN ToLower(s[i]) ELSE ToTitle(s[i])]

(***************************************************************************)
(* Module globals                                                          *)
(***************************************************************************)
Seattle == <<"S","e","a","t","t","l","e">>

NewYork == <<"N","e","w"," ","Y","o","r","k">>

London == <<"L","o","n","d","o","n">>

Berlin == <<"B","e","r","l","i","n">>

Tokyo == <<"T","o","k","y","o">>

Sydney == <<"S","y","d","n","e","y">>

\* LOCATIONS: an insertion-ordered dict, as the sequence of its items
LOCATIONS ==
    << [key |-> Seattle, tz |-> "America/Los_Angeles"],
       [key |-> NewYork, tz |-> "America/New_York"],
       [key |-> London,  tz |-> "Europe/London"],
       [key |-> Berlin,  tz |-> "Europe/Berlin"],
       [key |-> Tokyo,   tz |-> "Asia/Tokyo"],
       [key |-> Sydney,  tz |-> "Australia/Sydney"] >>

STATIC_WEATHER ==
    [ morning   |-> "Cool and clear with a light breeze.",
      afternoon |-> "Mild temperatures with scattered clouds and good visibility.",
      evening   |-> "Calm conditions with a gentle breeze and fading light.",
      night     |-> "Quiet, mostly clear skies and cooler air." ]

\* dict.keys(), in insertion order
Keys(tbl) == [i \in 1..Len(tbl) |-> tbl[i].key]

\* key in dict
HasKey(tbl, k) == \E i \in 1..Len(tbl) : tbl[i].key = k

\* dict[key]
Lookup(tbl, k) == tbl[CHOOSE i \in 1..Len(tbl) : tbl[i].key = k].tz

(***************************************************************************)
(* Time: pytz and datetime                                                 *)
(***************************************************************************)
\* UTC offsets, in minutes, in force during the model's window (early November 2026)
UtcOffset ==
    ("America/Los_Angeles" :> -480) @@ ("America/New_York" :> -300) @@
    ("Europe/London" :> 0) @@ ("Europe/Berlin" :> 60) @@
    ("Asia/Tokyo" :> 540) @@ ("Australia/Sydney" :> 660)

ZoneNames == DOMAIN UtcOffset

\* a value returned, or an exception raised
Return(v) == [kind |-> "return", value |-> v]

Raise(e) == [kind |-> "raise", value |-> e]

\* pytz.timezone(name): the tzinfo, or UnknownTimeZoneError
PytzTimezone(db, name) ==
    IF name \in db THEN Return(name) ELSE Raise("UnknownTimeZoneError")

DatetimeNowUtc(t, tz) ==
    [day |-> 1 + (t \div 1440), hour |-> (t % 1440) \div 60, minute |-> t % 60]

\* datetime.now(tz): the local date and time at instant t
DatetimeNow(t, tz) ==
    LET local == t + UtcOffset[tz]
    IN  [day |-> 1 + (local \div 1440),
         hour |-> (local % 1440) \div 60,
         minute |-> local % 60]

Digits == <<"0","1","2","3","4","5","6","7","8","9">>

\* %d, %H, %M: two digits, zero padded
TwoDigits(n) == <<Digits[(n \div 10) + 1], Digits[(n % 10) + 1]>>

YearMonth == <<"2","0","2","6","-","1","1">>

\* local_dt.strftime("%Y-%m-%d %H:%M")
Strftime(dt) ==
    YearMonth \o <<"-">> \o TwoDigits(dt.day) \o <<" ">> \o
    TwoDigits(dt.hour) \o <<":">> \o TwoDigits(dt.minute)

(***************************************************************************)
(* The resolver functions                                                  *)
(***************************************************************************)
GetTimeBucketEarlyEvening(local_dt) ==
    LET hour == local_dt.hour
    IN  IF 5 <= hour /\ hour <= 11 THEN "morning"
        ELSE IF 12 <= hour /\ hour < 17 THEN "afternoon"
        ELSE IF 17 <= hour /\ hour <= 21 THEN "evening"
        ELSE "night"

\* _get_time_bucket
GetTimeBucket(local_dt) ==
    LET hour == local_dt.hour
    IN  IF 5 <= hour /\ hour <= 11 THEN "morning"
        ELSE IF 12 <= hour /\ hour <= 17 THEN "afternoon"
        ELSE IF 18 <= hour /\ hour <= 21 THEN "evening"
        ELSE "night"

NormalizeLocationNoStrip(tbl, name) ==
    LET n == Lower(name)
        hit == {i \in 1..Len(tbl) : n = Lower(tbl[i].key)}
    IN  IF hit # {} THEN tbl[Min(hit)].key ELSE Title(n)

NormalizeLocationIgnoreSpaces(tbl, name) ==
    LET n == Lower(Strip(name))
        squeeze(s) == SelectSeq(s, LAMBDA c : ~IsSpace(c))
        hit == {i \in 1..Len(tbl) : squeeze(n) = squeeze(Lower(tbl[i].key))}
    IN  IF hit # {} THEN tbl[Min(hit)].key ELSE Title(n)

\* _normalize_location
NormalizeLocation(tbl, name) ==
    LET n == Lower(Strip(name))
        hit == {i \in 1..Len(tbl) : n = Lower(tbl[i].key)}
    IN  IF hit # {} THEN tbl[Min(hit)].key ELSE Title(n)

\* U+0060 is the grave accent, which a TLA+ string cannot hold
UnsupportedMsg ==
    <<"Unsupported location. Use ", "U+0060", "list_supported_locations", "U+0060",
      " to see valid options.">>

TimeZoneMsg == <<"Sorry, I couldn't resolve the time zone for that location.">>

GetWeatherAtLocationNoTry(tbl, sw, db, location, t) ==
    LET norm == NormalizeLocation(tbl, location)
    IN  IF ~HasKey(tbl, norm) THEN Return(UnsupportedMsg)
        ELSE
          LET tz == PytzTimezone(db, Lookup(tbl, norm))
          IN  IF tz.kind = "raise" THEN tz
              ELSE
                LET now_local == DatetimeNow(t, tz.value)
                    bucket == GetTimeBucket(now_local)
                IN  IF bucket \notin DOMAIN sw THEN Raise("KeyError")
                    ELSE Return(<<"Weather for ">> \o norm \o <<" at ">> \o
                                Strftime(now_local) \o <<" (">> \o <<bucket>> \o
                                <<"): ">> \o <<sw[bucket]>>)

\* get_weather_at_location, called at instant t with the globals tbl and sw and
\* the zone database db
GetWeatherAtLocation(tbl, sw, db, location, t) ==
    LET norm == NormalizeLocation(tbl, location)
    IN  IF ~HasKey(tbl, norm) THEN Return(UnsupportedMsg)
        ELSE
          LET tz == PytzTimezone(db, Lookup(tbl, norm))
          IN  IF tz.kind = "raise" THEN Return(TimeZoneMsg)
              ELSE
                LET now_local == DatetimeNow(t, tz.value)
                    bucket == GetTimeBucket(now_local)
                IN  IF bucket \notin DOMAIN sw THEN Raise("KeyError")
                    ELSE Return(<<"Weather for ">> \o norm \o <<" at ">> \o
                                Strftime(now_local) \o <<" (">> \o <<bucket>> \o
                                <<"): ">> \o <<sw[bucket]>>)

(***************************************************************************)
(* Inputs of the resolver functions                                        *)
(***************************************************************************)
CanonicalNames == {LOCATIONS[i].key : i \in 1..Len(LOCATIONS)}

Atlantis == <<"A","t","l","a","n","t","i","s">>

Words == CanonicalNames \cup {Atlantis, <<"N","e","w">>, <<>>}

EditChars == {LongS, " ", "x"}

PadChars == {" ", "\t"}

\* every second character upper case, the others lower case
Mixed(w) == [i \in 1..Len(w) |-> IF i % 2 = 0 THEN ToUpper(w[i]) ELSE ToLower(w[i])]

Cased(w) == {w, Lower(w), Upper(w), Mixed(w)}

\* w with one character replaced or removed, and w itself
Edited(w) ==
    {w} \cup {[w EXCEPT ![i] = c] : i \in 1..Len(w), c \in EditChars}
        \cup {SubSeq(w, 1, i-1) \o SubSeq(w, i+1, Len(w)) : i \in 1..Len(w)}

Pad(n, c) == [i \in 1..n |-> c]

Padded(w) ==
    {Pad(l, c) \o w \o Pad(r, c) : l \in 0..MaxPad, r \in 0..MaxPad, c \in PadChars}

Inputs ==
    UNION {UNION {UNION {Padded(e) : e \in Edited(v)} : v \in Cased(w)} : w \in Words}

\* the first instant of the window: 2026-11-02 00:00 UTC
FirstInstant == 24 * 60

Instants == FirstInstant .. (FirstInstant + WindowHours * 60 - 1)

NoCall == [fn |-> "none"]

(***************************************************************************)
(* Registration: the decorators of the module, in source order             *)
(***************************************************************************)
DecoratorsDuplicateTool ==
    << [kind |-> "resource", key |-> "config://version", fn |-> "get_version"],
       [kind |-> "tool", key |-> "list_supported_locations",
        fn |-> "list_supported_locations"],
       [kind |-> "tool", key |-> "get_weather_at_location",
        fn |-> "get_weather_at_location"],
       [kind |-> "tool", key |-> "get_weather_at_location",
        fn |-> "get_weather_for_multiple_locations"],
       [kind |-> "prompt", key |-> "describe_weather_capabilities",
        fn |-> "describe_weather_capabilities"] >>

\* @mcp.resource("config://version"), @mcp.tool() three times, @mcp.prompt()
Decorators ==
    << [kind |-> "resource", key |-> "config://version", fn |-> "get_version"],
       [kind |-> "tool", key |-> "list_supported_locations",
        fn |-> "list_supported_locations"],
       [kind |-> "tool", key |-> "get_weather_at_location",
        fn |-> "get_weather_at_location"],
       [kind |-> "tool", key |-> "get_weather_for_multiple_locations",
        fn |-> "get_weather_for_multiple_locations"],
       [kind |-> "prompt", key |-> "describe_weather_capabilities",
        fn |-> "describe_weather_capabilities"] >>

EmptyRegistry == [k \in {} |-> ""]

\* the registry's add: a name registered again replaces the entry
Registered(reg, d) == (d.key :> d.fn) @@ reg

\* the next decorator of the module runs; after the last one the module body is
\* done and __main__ begins
Register ==
    /\ pc = "import"
    /\ declared < Len(Decorators)
    /\ LET d == Decorators[declared + 1]
       IN  /\ tools' = IF d.kind = "tool" THEN Registered(tools, d) ELSE tools
           /\ resources' = IF d.kind = "resource" THEN Registered(resources, d)
                           ELSE resources
           /\ prompts' = IF d.kind = "prompt" THEN Registered(prompts, d) ELSE prompts
    /\ declared' = declared + 1
    /\ pc' = IF declared' = Len(Decorators) THEN "main" ELSE "import"
    /\ UNCHANGED <<templates, log, locations, staticWeather, tzdata, clock, req>>
    /\ UNCHANGED resolverVars

(***************************************************************************)
(* __main__: check_mcp, then uvicorn.run                                   *)
(***************************************************************************)
\* one printed line of check_mcp: the count and the names of a registry
Summary(label, reg) ==
    [label |-> label, count |-> Cardinality(DOMAIN reg),
     names |-> {reg[k] : k \in DOMAIN reg}]

\* asyncio.run(check_mcp(mcp)): tools, resources and resource templates
CheckMcp ==
    /\ pc = "main"
    /\ log' = << Summary("Tool(s)", tools), Summary("Resource(s)", resources),
                 Summary("Resource Template(s)", templates) >>
    /\ pc' = "checked"
    /\ UNCHANGED <<declared, tools, resources, prompts, templates, locations,
                   staticWeather, tzdata, clock, req>>
    /\ UNCHANGED resolverVars

UvicornRunBeforeCheck ==
    /\ pc \in {"main", "checked"}
    /\ pc' = "serving"
    /\ UNCHANGED <<declared, tools, resources, prompts, templates, log, locations,
                   staticWeather, tzdata, clock, req>>
    /\ UNCHANGED resolverVars

\* uvicorn.run(sse_app, ...): the server starts to accept calls
UvicornRun ==
    /\ pc = "checked"
    /\ pc' = "serving"
    /\ UNCHANGED <<declared, tools, resources, prompts, templates, log, locations,
                   staticWeather, tzdata, clock, req>>
    /\ UNCHANGED resolverVars

Idle == [st |-> "idle", kind |-> "", name |-> "", args |-> <<>>, out |-> <<>>,
         at |-> <<>>, ret |-> Return(<<>>)]

\* KeyboardInterrupt in __main__: the process ends, and its workers with it
Interrupt ==
    /\ pc \in {"main", "checked", "serving"}
    /\ pc' = "exit"
    /\ req' = [w \in Workers |-> Idle]
    /\ UNCHANGED <<declared, tools, resources, prompts, templates, log, locations,
                   staticWeather, tzdata, clock>>
    /\ UNCHANGED resolverVars

(***************************************************************************)
(* Serving                                                                 *)
(***************************************************************************)
\* the first instants of the server's runs: 2026-11-02 17:59 UTC (an hour that
\* changes the bucket in London) and 12:59 UTC (23:59 in Sydney)
StartClocks == {FirstInstant + 17 * 60 + 59, FirstInstant + 12 * 60 + 59}

ServerInstants == {s + k : s \in StartClocks, k \in 0..MaxTicks}

\* the wall clock advances by a minute
Tick ==
    /\ clock + 1 \in ServerInstants
    /\ clock' = clock + 1
    /\ UNCHANGED <<pc, declared, tools, resources, prompts, templates, log,
                   locations, staticWeather, tzdata, req>>
    /\ UNCHANGED resolverVars

Sample == <<London, Atlantis, Tokyo>>

ServerInputs == {Sample[i] : i \in 1..Len(Sample)} \cup {<<" ">> \o Lower(Berlin)}

\* the batches a caller sends: the runs of London, Atlantis, Tokyo, London, ...
Corpus == [i \in 1..MaxBatch |-> Sample[((i - 1) % Len(Sample)) + 1]]

Batches == {<<>>} \cup {SubSeq(Corpus, i, j) : i \in 1..MaxBatch, j \in 1..MaxBatch}

ToolCallNames == {Decorators[i].key : i \in {j \in 1..Len(Decorators) :
                                             Decorators[j].kind = "tool"}}
                 \cup {"get_forecast"}

ResourceCallNames == {"config://version", "config://build"}

PromptCallNames == {"describe_weather_capabilities"}

Done(kind, name, args, at, ret) ==
    [st |-> "done", kind |-> kind, name |-> name, args |-> args, out |-> <<>>,
     at |-> at, ret |-> ret]

Serve(w, r) ==
    /\ req' = [req EXCEPT ![w] = r]
    /\ UNCHANGED <<pc, declared, tools, resources, prompts, templates, log,
                   locations, staticWeather, tzdata, clock>>
    /\ UNCHANGED resolverVars

\* dispatch of a name that the registry does not hold
CallUnknown(w) ==
    /\ pc = "serving"
    /\ req[w].st = "idle"
    /\ \/ \E n \in ToolCallNames :
            n \notin DOMAIN tools
            /\ Serve(w, Done("tool", n, <<>>, <<>>, Raise("UnknownCapability")))
       \/ \E n \in ResourceCallNames :
            n \notin DOMAIN resources
            /\ Serve(w, Done("resource", n, <<>>, <<>>, Raise("UnknownCapability")))

\* get_version
GetVersion == [version |-> "1.0.0", features |-> <<"tools", "resources">>]

CallGetVersion(w) ==
    /\ pc = "serving"
    /\ req[w].st = "idle"
    /\ \E n \in ResourceCallNames :
         /\ n \in DOMAIN resources
         /\ resources[n] = "get_version"
         /\ Serve(w, Done("resource", n, <<>>, <<>>, Return(GetVersion)))

\* describe_weather_capabilities
DescribeWeatherCapabilities ==
    << [role |-> "user",
        content |-> <<"You are connected to a weather MCP server that provides static weather descriptions for six popular locations. Explain how to: (1) list supported locations, (2) get the weather for a single location at its current local time, and (3) fetch weather for multiple locations at once.">>] >>

CallDescribeWeatherCapabilities(w) ==
    /\ pc = "serving"
    /\ req[w].st = "idle"
    /\ \E n \in PromptCallNames :
         /\ n \in DOMAIN prompts
         /\ prompts[n] = "describe_weather_capabilities"
         /\ Serve(w, Done("prompt", n, <<>>, <<>>, Return(DescribeWeatherCapabilities)))

\* list_supported_locations
ListSupportedLocations(tbl) == Keys(tbl)

CallListSupportedLocations(w) ==
    /\ pc = "serving"
    /\ req[w].st = "idle"
    /\ \E n \in ToolCallNames :
         /\ n \in DOMAIN tools
         /\ tools[n] = "list_supported_locations"
         /\ Serve(w, Done("tool", n, <<>>, <<>>,
                          Return(ListSupportedLocations(locations))))

CallGetWeatherAtLocationPop(w) ==
    /\ pc = "serving"
    /\ req[w].st = "idle"
    /\ \E n \in ToolCallNames, loc \in ServerInputs :
         /\ n \in DOMAIN tools
         /\ tools[n] = "get_weather_at_location"
         /\ LET r == GetWeatherAtLocation(locations, staticWeather, tzdata, loc, clock)
                norm == NormalizeLocation(locations, loc)
                gone == IF HasKey(locations, norm)
                        THEN {GetTimeBucket(DatetimeNow(clock, Lookup(locations, norm)))}
                        ELSE {}
            IN  /\ req' = [req EXCEPT ![w] = Done("tool", n, <<loc>>, <<clock>>, r)]
                /\ staticWeather' = [b \in (DOMAIN staticWeather) \ gone |->
                                        staticWeather[b]]
    /\ UNCHANGED <<pc, declared, tools, resources, prompts, templates, log,
                   locations, tzdata, clock>>
    /\ UNCHANGED resolverVars

\* get_weather_at_location, invoked as a tool
CallGetWeatherAtLocation(w) ==
    /\ pc = "serving"
    /\ req[w].st = "idle"
    /\ \E n \in ToolCallNames, loc \in ServerInputs :
         /\ n \in DOMAIN tools
         /\ tools[n] = "get_weather_at_location"
         /\ Serve(w, Done("tool", n, <<loc>>, <<clock>>,
                  GetWeatherAtLocation(locations, staticWeather, tzdata, loc, clock)))

\* get_weather_for_multiple_locations is entered: results = []
CallGetWeatherForMultipleLocations(w) ==
    /\ pc = "serving"
    /\ req[w].st = "idle"
    /\ \E n \in ToolCallNames, locs \in Batches :
         /\ n \in DOMAIN tools
         /\ tools[n] = "get_weather_for_multiple_locations"
         /\ Serve(w, [st |-> "running", kind |-> "tool", name |-> n, args |-> locs,
                      out |-> <<>>, at |-> <<>>, ret |-> Return(<<>>)])

BatchStepFiltering(w) ==
    /\ pc = "serving"
    /\ req[w].st = "running"
    /\ Len(req[w].at) < Len(req[w].args)
    /\ LET loc == req[w].args[Len(req[w].at) + 1]
           r == GetWeatherAtLocation(locations, staticWeather, tzdata, loc, clock)
       IN  IF r.kind = "raise"
           THEN Serve(w, [req[w] EXCEPT !.st = "done", !.ret = r])
           ELSE Serve(w, [req[w] EXCEPT
                            !.out = IF r.value = UnsupportedMsg THEN @
                                    ELSE Append(@, r.value),
                            !.at = Append(@, clock)])

\* one turn of the loop: results.append(get_weather_at_location(loc)); an
\* exception of the call ends the handler
BatchStep(w) ==
    /\ pc = "serving"
    /\ req[w].st = "running"
    /\ Len(req[w].at) < Len(req[w].args)
    /\ LET loc == req[w].args[Len(req[w].at) + 1]
           r == GetWeatherAtLocation(locations, staticWeather, tzdata, loc, clock)
       IN  IF r.kind = "raise"
           THEN Serve(w, [req[w] EXCEPT !.st = "done", !.ret = r])
           ELSE Serve(w, [req[w] EXCEPT !.out = Append(@, r.value),
                                        !.at = Append(@, clock)])

\* the loop is over: return results
BatchReturn(w) ==
    /\ pc = "serving"
    /\ req[w].st = "running"
    /\ Len(req[w].at) = Len(req[w].args)
    /\ Serve(w, [req[w] EXCEPT !.st = "done", !.ret = Return(req[w].out)])

\* the response leaves; the worker is free again
Respond(w) ==
    /\ pc = "serving"
    /\ req[w].st = "done"
    /\ Serve(w, Idle)

(***************************************************************************)
(* The server                                                              *)
(***************************************************************************)
ResolverIdle ==
    /\ arg = <<>>
    /\ now = FirstInstant
    /\ call = NoCall
    /\ again = NoCall

ServerInit ==
    /\ pc = "import"
    /\ declared = 0
    /\ tools = EmptyRegistry
    /\ resources = EmptyRegistry
    /\ prompts = EmptyRegistry
    /\ templates = EmptyRegistry
    /\ log = <<>>
    /\ locations = LOCATIONS
    /\ staticWeather = STATIC_WEATHER
    /\ clock \in StartClocks
    /\ req = [w \in Workers |-> Idle]

\* pytz as installed resolves the six zones of LOCATIONS
Init == ServerInit /\ tzdata = ZoneNames /\ ResolverIdle

Next ==
    \/ Register
    \/ CheckMcp
    \/ UvicornRun
    \/ Interrupt
    \/ Tick
    \/ \E w \in Workers : CallUnknown(w)
    \/ \E w \in Workers : CallGetVersion(w)
    \/ \E w \in Workers : CallDescribeWeatherCapabilities(w)
    \/ \E w \in Workers : CallListSupportedLocations(w)
    \/ \E w \in Workers : CallGetWeatherAtLocation(w)
    \/ \E w \in Workers : CallGetWeatherForMultipleLocations(w)
    \/ \E w \in Workers : BatchStep(w)
    \/ \E w \in Workers : BatchReturn(w)
    \/ \E w \in Workers : Respond(w)

Spec == Init /\ [][Next]_vars

\* a zone database that lacks some or all of the zones
InitTz ==
    /\ ServerInit
    /\ tzdata \in {ZoneNames \ {z} : z \in {"Europe/London", "Asia/Tokyo"}} \cup {{}}
    /\ ResolverIdle

SpecTz == InitTz /\ [][Next]_vars

(***************************************************************************)
(* The resolver functions on their own: an input string and an instant are *)
(* drawn, and one function is applied; get_weather_at_location may be      *)
(* called a second time, in the same minute or in the next one.            *)
(***************************************************************************)
ResolverInit ==
    /\ ServerInit
    /\ tzdata = ZoneNames
    /\ \/ arg \in Inputs /\ now = FirstInstant
       \/ arg \in CanonicalNames /\ now \in Instants
    /\ call = NoCall
    /\ again = NoCall

ApplyNormalizeLocation ==
    /\ call = NoCall
    /\ call' = [fn |-> "_normalize_location",
                ret |-> Return(NormalizeLocation(locations, arg))]
    /\ UNCHANGED <<arg, now, again>>
    /\ UNCHANGED serverVars

ApplyGetTimeBucket ==
    /\ call = NoCall
    /\ \E tz \in ZoneNames :
         LET local_dt == DatetimeNow(now, tz)
         IN  call' = [fn |-> "_get_time_bucket", local_dt |-> local_dt,
                      ret |-> Return(GetTimeBucket(local_dt))]
    /\ UNCHANGED <<arg, now, again>>
    /\ UNCHANGED serverVars

ApplyGetWeatherAtLocation ==
    /\ call = NoCall
    /\ call' = [fn |-> "get_weather_at_location", at |-> now,
                ret |-> GetWeatherAtLocation(locations, staticWeather, tzdata, arg, now)]
    /\ UNCHANGED <<arg, now, again>>
    /\ UNCHANGED serverVars

\* a minute passes between the two calls
ResolverTick ==
    /\ call.fn = "get_weather_at_location"
    /\ again = NoCall
    /\ now = call.at
    /\ now' = now + 1
    /\ UNCHANGED <<arg, call, again>>
    /\ UNCHANGED serverVars

ApplyGetWeatherAtLocationAgain ==
    /\ call.fn = "get_weather_at_location"
    /\ again = NoCall
    /\ again' = [fn |-> "get_weather_at_location", at |-> now,
                 ret |-> GetWeatherAtLocation(locations, staticWeather, tzdata, arg, now)]
    /\ UNCHANGED <<arg, now, call>>
    /\ UNCHANGED serverVars

ResolverNext ==
    \/ ApplyNormalizeLocation
    \/ ApplyGetTimeBucket
    \/ ApplyGetWeatherAtLocation
    \/ ResolverTick
    \/ ApplyGetWeatherAtLocationAgain

ResolverSpec == ResolverInit /\ [][ResolverNext]_vars

(***************************************************************************)
(* Properties                                                              *)
(***************************************************************************)
Buckets == {"morning", "afternoon", "evening", "night"}

\* C1: for every hour 0..23 _get_time_bucket returns one of the four buckets:
\* morning iff 5..11, afternoon iff 12..17, evening iff 18..21, night iff 22..23
\* or 0..4; and the bucket returned is a key of the weather description table.
C1_BucketRanges ==
    call.fn = "_get_time_bucket" =>
        LET h == call.local_dt.hour
            b == call.ret.value
        IN  /\ h \in 0..23
            /\ call.ret.kind = "return"
            /\ b \in Buckets
            /\ (b = "morning") <=> (h \in 5..11)
            /\ (b = "afternoon") <=> (h \in 12..17)
            /\ (b = "evening") <=> (h \in 18..21)
            /\ (b = "night") <=> (h >= 22 \/ h <= 4)
            /\ b \in DOMAIN staticWeather

C1_Witness ==
    /\ call.fn = "_get_time_bucket"
    /\ call.local_dt.hour = 17
    /\ call.ret.value = "afternoon"

\* the case-insensitive comparison of the trimmed input with a canonical name
MatchesCanonical(s) == \E L \in CanonicalNames : Lower(Strip(s)) = Lower(L)

\* C3 as stated: every input that is not one of the six canonical names gets the
\* unsupported-location text as the returned value.
C3_Original ==
    (call.fn = "get_weather_at_location" /\ arg \notin CanonicalNames) =>
        call.ret = Return(UnsupportedMsg)

\* C3, amended: every input whose trimmed, lower-cased and then title-cased form
\* is not one of the six canonical names gets the unsupported-location text as
\* the returned value, and nothing is raised.
C3_UnsupportedReturned ==
    (call.fn = "get_weather_at_location"
        /\ Title(Lower(Strip(arg))) \notin CanonicalNames) =>
        call.ret = Return(UnsupportedMsg)

C3_Witness ==
    /\ call.fn = "get_weather_at_location"
    /\ arg = <<" ">> \o Lower(Atlantis)
    /\ call.ret = Return(UnsupportedMsg)

\* the time bucket of an hour, by the ranges of the specification
BucketOfHour(h) ==
    CASE h \in 5..11 -> "morning"
      [] h \in 12..17 -> "afternoon"
      [] h \in 18..21 -> "evening"
      [] h \in {22, 23} \cup 0..4 -> "night"

\* the line for canonical location L at instant t: L, the local date and
\* hour:minute in L's zone, the bucket of the local hour and its description
WeatherLine(L, t) ==
    LET zone == LOCATIONS[CHOOSE i \in 1..Len(LOCATIONS) : LOCATIONS[i].key = L].tz
        local == t + UtcOffset[zone]
        d == 1 + (local \div 1440)
        h == (local % 1440) \div 60
        m == local % 60
        two(n) == <<Digits[(n \div 10) + 1], Digits[(n % 10) + 1]>>
    IN  <<"Weather for ">> \o L \o <<" at ">> \o
        <<"2","0","2","6","-","1","1","-">> \o two(d) \o <<" ">> \o two(h) \o
        <<":">> \o two(m) \o <<" (", BucketOfHour(h), "): ",
        STATIC_WEATHER[BucketOfHour(h)]>>

\* C4: for a canonical location and any clock value get_weather_at_location
\* never returns the unsupported-location text; it returns the line with the
\* location, the local date and time, the bucket of the local hour and that
\* bucket's description; two calls in the same minute return the same string.
C4_CanonicalWeatherLine ==
    (call.fn = "get_weather_at_location" /\ arg \in CanonicalNames) =>
        /\ call.ret # Return(UnsupportedMsg)
        /\ call.ret = Return(WeatherLine(arg, call.at))
        /\ (again # NoCall /\ again.at = call.at) => again.ret = call.ret

C4_Witness ==
    /\ call.fn = "get_weather_at_location"
    /\ arg = Sydney
    /\ again # NoCall
    /\ again.at = call.at
    /\ again.ret = call.ret
    /\ call.ret.value[Len(call.ret.value) - 2] = "evening"

\* C5: for each canonical location L, _normalize_location of L lower-cased, of
\* L upper-cased and of L between two leading and two trailing spaces is L.
C5_CanonicalVariants ==
    call.fn = "_normalize_location" =>
        \A L \in CanonicalNames :
            arg \in {Lower(L), Upper(L), <<" ", " ">> \o L \o <<" ", " ">>} =>
                call.ret = Return(L)

C5_Witness ==
    /\ call.fn = "_normalize_location"
    /\ arg = <<" ", " ">> \o NewYork \o <<" ", " ">>
    /\ call.ret = Return(NewYork)

\* C6 as stated: for an input that matches no canonical name case-insensitively
\* after trimming, _normalize_location returns the title-cased trimmed input,
\* which is no canonical name, and get_weather_at_location rejects the input.
C6_FallbackNeverCanonical ==
    ~MatchesCanonical(arg) =>
        /\ call.fn = "_normalize_location" =>
              /\ call.ret = Return(Title(Strip(arg)))
              /\ call.ret.value \notin CanonicalNames
        /\ call.fn = "get_weather_at_location" => call.ret = Return(UnsupportedMsg)

\* C2: get_weather_for_multiple_locations returns one element per input, in
\* input order: the i-th is what get_weather_at_location returns for the i-th
\* input at the clock of that call; nothing is filtered or reordered and an
\* unsupported input does not end the batch.
C2_BatchMapsEachInput ==
    \A w \in Workers :
        LET r == req[w]
        IN  (r.st # "idle" /\ r.name = "get_weather_for_multiple_locations") =>
                /\ Len(r.out) = Len(r.at)
                /\ Len(r.out) <= Len(r.args)
                /\ \A i \in 1..Len(r.out) :
                       Return(r.out[i]) =
                           GetWeatherAtLocation(locations, staticWeather, tzdata,
                                                r.args[i], r.at[i])
                /\ r.st = "done" =>
                       /\ r.ret = Return(r.out)
                       /\ Len(r.ret.value) = Len(r.args)

C2_Witness ==
    \E w \in Workers :
        /\ req[w].st = "done"
        /\ req[w].name = "get_weather_for_multiple_locations"
        /\ req[w].args = <<London, Atlantis, Tokyo>>
        /\ Len(req[w].ret.value) = 3
        /\ SubSeq(req[w].ret.value[1], 1, 7) = <<"Weather for ">> \o London
        /\ req[w].ret.value[2] = UnsupportedMsg
        /\ SubSeq(req[w].ret.value[3], 1, 6) = <<"Weather for ">> \o Tokyo
        /\ req[w].at[1] < req[w].at[3]

RegisteredNames == DOMAIN tools \cup DOMAIN resources \cup DOMAIN prompts

\* C7: after the registrations the registry holds exactly the three tools, the
\* resource config://version and one prompt, each once; an invocation of a name
\* that was never registered fails with UnknownCapability, and only such an
\* invocation does.
C7_RegistryContents ==
    /\ pc # "import" =>
          /\ DOMAIN tools = {"list_supported_locations", "get_weather_at_location",
                             "get_weather_for_multiple_locations"}
          /\ Cardinality(DOMAIN tools) = 3
          /\ \A a, b \in DOMAIN tools : tools[a] = tools[b] => a = b
          /\ DOMAIN resources = {"config://version"}
          /\ Cardinality(DOMAIN prompts) = 1
    /\ \A w \in Workers :
          req[w].st = "done" =>
              ((req[w].name \notin RegisteredNames)
                  <=> (req[w].ret = Raise("UnknownCapability")))

C7_Witness ==
    /\ pc = "serving"
    /\ \E w \in Workers :
          /\ req[w].st = "done"
          /\ req[w].name = "get_forecast"
          /\ req[w].ret = Raise("UnknownCapability")
    /\ \E w \in Workers :
          /\ req[w].st = "done"
          /\ req[w].name = "list_supported_locations"
          /\ req[w].ret.kind = "return"

\* a recognized location whose zone the database does not resolve
ZoneUnresolved(loc) ==
    \E i \in 1..Len(LOCATIONS) :
        /\ Lower(Strip(loc)) = Lower(LOCATIONS[i].key)
        /\ LOCATIONS[i].tz \notin tzdata

\* C8: when the time zone of a recognized location does not resolve,
\* get_weather_at_location returns the "couldn't resolve the time zone" text and
\* raises nothing, so a batch with that location completes with one output per
\* input.
C8_ZoneFailureReturned ==
    \A w \in Workers :
        LET r == req[w]
        IN  /\ (r.st = "done" /\ r.name = "get_weather_at_location"
                    /\ ZoneUnresolved(r.args[1])) => r.ret = Return(TimeZoneMsg)
            /\ (r.st = "done" /\ r.name = "get_weather_for_multiple_locations") =>
                   /\ r.ret.kind = "return"
                   /\ Len(r.ret.value) = Len(r.args)
                   /\ \A i \in 1..Len(r.args) :
                          ZoneUnresolved(r.args[i]) => r.ret.value[i] = TimeZoneMsg

C8_Witness ==
    /\ "Europe/London" \notin tzdata
    /\ "Asia/Tokyo" \in tzdata
    /\ \E w \in Workers :
          /\ req[w].st = "done"
          /\ req[w].name = "get_weather_for_multiple_locations"
          /\ req[w].args = <<London, Atlantis, Tokyo>>
          /\ req[w].ret.kind = "return"
          /\ req[w].ret.value[1] = TimeZoneMsg
          /\ req[w].ret.value[2] = UnsupportedMsg
          /\ SubSeq(req[w].ret.value[3], 1, 6) = <<"Weather for ">> \o Tokyo
    /\ \E w \in Workers :
          /\ req[w].st = "done"
          /\ req[w].name = "get_weather_at_location"
          /\ req[w].args = <<London>>
          /\ req[w].ret = Return(TimeZoneMsg)

\* the result of an invocation from its own name, arguments and clock readings
\* and the tables as they are at startup
ResultOf(r) ==
    IF r.name \notin RegisteredNames THEN Raise("UnknownCapability")
    ELSE CASE r.name = "config://version" ->
                Return([version |-> "1.0.0", features |-> <<"tools", "resources">>])
           [] r.name = "describe_weather_capabilities" ->
                Return(DescribeWeatherCapabilities)
           [] r.name = "list_supported_locations" ->
                Return(<<Seattle, NewYork, London, Berlin, Tokyo, Sydney>>)
           [] r.name = "get_weather_at_location" ->
                GetWeatherAtLocation(LOCATIONS, STATIC_WEATHER, tzdata,
                                     r.args[1], r.at[1])
           [] r.name = "get_weather_for_multiple_locations" ->
                Return([i \in 1..Len(r.args) |->
                          GetWeatherAtLocation(LOCATIONS, STATIC_WEATHER, tzdata,
                                               r.args[i], r.at[i]).value])

\* C9: no step of any invocation, in any interleaving, changes the Location
\* Table or the Weather Description Table, and every result is determined by
\* the invocation's own arguments and clock readings, whatever ran before or
\* runs beside it.
C9_TablesReadOnly ==
    [][ /\ locations' = locations
        /\ staticWeather' = staticWeather
        /\ \A w \in Workers :
              (req'[w] # req[w] /\ req'[w].st = "done") =>
                  req'[w].ret = ResultOf(req'[w]) ]_vars

C9_Witness ==
    /\ locations = LOCATIONS
    /\ staticWeather = STATIC_WEATHER
    /\ \E w, v \in Workers :
          /\ req[w].st = "running"
          /\ Len(req[w].at) >= 1
          /\ req[v].st = "done"
          /\ req[v].name = "get_weather_at_location"
          /\ req[v].args = <<London>>
          /\ req[v].at[1] > req[w].at[1]

ServingOrServed == pc = "serving" \/ \E w \in Workers : req[w].st # "idle"

====
